---- MODULE Spec2Model ----
(***************************************************************************)
(* Model of the form controller useForm (src/lib/useForm.ts): the tree     *)
(* value, the baseline, the touched flag, the error state, the table of    *)
(* registered controls, the native controls it reconciles, and the         *)
(* validate() calls in flight.                                             *)
(*                                                                         *)
(* One action is one event handler or one promise continuation together    *)
(* with the render and the effect (lines 56-74) that React runs for the    *)
(* state it set.  The effect runs only when one of its dependencies        *)
(* (formValue, validateOnChange, validate) changed identity; validate      *)
(* changes identity exactly when formValue does.                           *)
(***************************************************************************)
EXTENDS Integers, Sequences, FiniteSets, TLC

(***************************************************************************)
(* Bound: the number of user events (change, reset, submit, mount,         *)
(* unmount) of one run.  Continuations of validate() are not counted: at   *)
(* most one is started per event, plus one when the touched flag is set.   *)
(***************************************************************************)
MaxEvents == 3

----------------------------------------------------------------------------
(* JavaScript values.  A leaf is tagged with its type, an object maps its   *)
(* own keys to values; a key that is absent is not in the domain, a key    *)
(* holding undefined is.                                                   *)

Undefined == [t |-> "undef"]
Str(s) == [t |-> "str", s |-> s]
Bool(b) == [t |-> "bool", b |-> b]
Num(n) == [t |-> "num", n |-> n]
NoKeys == [k \in {} |-> Undefined]
Obj(kids) == [t |-> "obj", kids |-> kids]
Put(kids, key, v) == [k \in (DOMAIN kids) \cup {key} |-> IF k = key THEN v ELSE kids[k]]

(* Boolean(value) and the test of `if (values)`. *)
Truthy(v) ==
  CASE v.t = "undef" -> FALSE
    [] v.t = "str" -> v.s # ""
    [] v.t = "bool" -> v.b
    [] v.t = "num" -> v.n # 0
    [] OTHER -> TRUE

(* String(value ?? ''), for the values a leaf of the tree can hold. *)
NumToString(n) == IF n = 30 THEN "30" ELSE "0"
StringOf(v) ==
  CASE v.t = "undef" -> ""
    [] v.t = "str" -> v.s
    [] v.t = "bool" -> (IF v.b THEN "true" ELSE "false")
    [] v.t = "num" -> NumToString(v.n)
    [] OTHER -> "[object Object]"

----------------------------------------------------------------------------
(* Path utilities and structural equality (./utils). *)

RECURSIVE getDeepProp(_, _)
getDeepProp(tree, path) ==
  IF path = <<>> THEN tree
  ELSE IF tree.t = "obj" /\ Head(path) \in DOMAIN tree.kids
       THEN getDeepProp(tree.kids[Head(path)], Tail(path))
       ELSE Undefined

RECURSIVE setDeepProp(_, _, _)
setDeepProp(tree, path, value) ==
  IF path = <<>> THEN value
  ELSE LET kids == IF tree.t = "obj" THEN tree.kids ELSE NoKeys
           key == Head(path)
           child == IF key \in DOMAIN kids THEN kids[key] ELSE Undefined
       IN Obj(Put(kids, key, setDeepProp(child, Tail(path), value)))

RECURSIVE deepEqual(_, _)
deepEqual(a, b) ==
  IF a.t # b.t THEN FALSE
  ELSE IF a.t = "obj"
       THEN /\ DOMAIN a.kids = DOMAIN b.kids
            /\ \A k \in DOMAIN a.kids : deepEqual(a.kids[k], b.kids[k])
       ELSE a = b

RECURSIVE JoinKeys(_)
JoinKeys(path) ==
  IF Len(path) = 1 THEN Head(path) ELSE Head(path) \o "." \o JoinKeys(Tail(path))

----------------------------------------------------------------------------
(* The schema: { name: string (min length 1), age: number (coerced),       *)
(* prefs?: { agree: boolean = false }, choice?: "a" | "b" }.               *)

ZodString == [kind |-> "ZodString"]
ZodNumber == [kind |-> "ZodNumber"]
ZodBoolean == [kind |-> "ZodBoolean"]
ZodEnum == [kind |-> "ZodEnum"]
Wrap(kind, inner) == [kind |-> kind, inner |-> inner]

RECURSIVE unwrapZodType(_)
unwrapZodType(s) ==
  IF s.kind \in {"ZodOptional", "ZodDefault", "ZodNullable", "ZodEffects"}
  THEN unwrapZodType(s.inner)
  ELSE s

nameSchema == Wrap("ZodEffects", ZodString)
ageSchema == ZodNumber
agreeSchema == Wrap("ZodDefault", ZodBoolean)
choiceSchema == Wrap("ZodOptional", ZodEnum)

Has(tree, key) == tree.t = "obj" /\ key \in DOMAIN tree.kids
Field(tree, key) == IF Has(tree, key) THEN tree.kids[key] ELSE Undefined

(* Number(v) of z.coerce.number: the strings the controls can carry. *)
StringToNum(s) == IF s = "30" THEN 30 ELSE 0
CoercesToNumber(v) == v.t = "num" \/ v.t = "str" \/ v.t = "bool"
CoerceNumber(v) ==
  CASE v.t = "num" -> v.n
    [] v.t = "str" -> StringToNum(v.s)
    [] v.t = "bool" -> (IF v.b THEN 1 ELSE 0)
    [] OTHER -> 0

NameOk(v) == v.t = "str" /\ v.s # ""
PrefsOk(v) ==
  \/ v.t = "undef"
  \/ v.t = "obj" /\ Field(v, "agree").t \in {"undef", "bool"}
ChoiceOk(v) == v.t = "undef" \/ (v.t = "str" /\ v.s \in {"a", "b"})

Issues(tree) ==
  {n \in {"name"} : ~NameOk(Field(tree, "name"))}
    \cup {n \in {"age"} : ~CoercesToNumber(Field(tree, "age"))}
    \cup {n \in {"prefs"} : ~PrefsOk(Field(tree, "prefs"))}
    \cup {n \in {"choice"} : ~ChoiceOk(Field(tree, "choice"))}

ParsedPrefs(v) ==
  Obj(Put(NoKeys, "agree", IF Field(v, "agree").t = "bool" THEN Field(v, "agree") ELSE Bool(FALSE)))

ParsedData(tree) ==
  LET base == Put(Put(NoKeys, "name", Field(tree, "name")),
                  "age", Num(CoerceNumber(Field(tree, "age"))))
      withPrefs == IF Field(tree, "prefs").t = "obj"
                   THEN Put(base, "prefs", ParsedPrefs(Field(tree, "prefs")))
                   ELSE base
      withChoice == IF Has(tree, "choice")
                    THEN Put(withPrefs, "choice", Field(tree, "choice"))
                    ELSE withPrefs
  IN Obj(withChoice)

(* The value schema.safeParseAsync(tree) resolves to. *)
safeParse(tree) ==
  IF Issues(tree) = {}
  THEN [success |-> TRUE, data |-> ParsedData(tree), error |-> {}]
  ELSE [success |-> FALSE, data |-> Undefined, error |-> Issues(tree)]

----------------------------------------------------------------------------
(* Configuration and the native controls of the form. *)

initialValues == Obj(Put(NoKeys, "name", Str("Al")))
resetValues == Obj(Put(Put(Put(NoKeys, "name", Str("Al")), "age", Str("30")), "choice", Str("a")))

(* The objects reset can be given: the configured initialValues (the       *)
(* default argument) or another object. *)
ResetArgs == {"initialValues", "resetValues"}
ValueOf(arg) == IF arg = "initialValues" THEN initialValues ELSE resetValues

Controls == {"nameInput", "ageInput", "agreeBox", "radioA", "radioB"}

ControlPath(c) ==
  CASE c = "nameInput" -> <<"name">>
    [] c = "ageInput" -> <<"age">>
    [] c = "agreeBox" -> <<"prefs", "agree">>
    [] OTHER -> <<"choice">>

ControlSchema(c) ==
  CASE c = "nameInput" -> nameSchema
    [] c = "ageInput" -> ageSchema
    [] c = "agreeBox" -> agreeSchema
    [] OTHER -> choiceSchema

ControlType(c) ==
  CASE c = "nameInput" -> "text"
    [] c = "ageInput" -> "number"
    [] c = "agreeBox" -> "checkbox"
    [] OTHER -> "radio"

(* The value a control has when it is created. *)
ValueAttr(c) ==
  CASE c = "radioA" -> "a"
    [] c = "radioB" -> "b"
    [] c = "agreeBox" -> "on"
    [] OTHER -> ""

(* What a change event of the control can carry in currentTarget.value     *)
(* (for a checkbox, the value attribute the page gave it).                 *)
EventValues(c) ==
  CASE c = "nameInput" -> {"", "Al"}
    [] c = "ageInput" -> {"", "30"}
    [] c = "agreeBox" -> {"on", ""}
    [] OTHER -> {ValueAttr(c)}

(* ... and in currentTarget.checked. *)
EventChecked(c) ==
  CASE c = "agreeBox" -> {TRUE, FALSE}
    [] c \in {"radioA", "radioB"} -> {TRUE}
    [] OTHER -> {FALSE}

isRadio(el) == el.type = "radio"
isCheckbox(el) == el.type = "checkbox"

FreshElement(c) == [mounted |-> TRUE, type |-> ControlType(c), value |-> ValueAttr(c), checked |-> FALSE]
NoElement(c) == [mounted |-> FALSE, type |-> ControlType(c), value |-> ValueAttr(c), checked |-> FALSE]

----------------------------------------------------------------------------
VARIABLES
  formValue,              \* useState, line 28
  formValueRef,           \* which object formValue is: "clone", "fresh", or a reset argument
  formErrors,             \* useState, line 29
  fieldRefs,              \* useRef, line 30: key -> [path, ref]
  validateOnChange,       \* useState, line 33 (the touched flag)
  internalInitialValues,  \* useState, line 36 (the baseline)
  isDirty,                \* useMemo, line 37
  dom,                    \* the native controls: control -> element state
  inflight,               \* validate() calls awaiting safeParseAsync, oldest first
  events,                 \* number of user events so far
  resetArg,               \* history: the argument of the most recent reset, or "none"
  submitted,              \* history: a handleSubmit-wrapped event has fired
  last                    \* history: what the last step did

vars == <<formValue, formValueRef, formErrors, fieldRefs, validateOnChange,
          internalInitialValues, isDirty, dom, inflight, events, resetArg, submitted, last>>

NoErrors == [set |-> FALSE, issues |-> {}]
Errors(issues) == [set |-> TRUE, issues |-> issues]

----------------------------------------------------------------------------
(* register: the name, and the ref callback (lines 87, 102-109). *)

RegisterName(path) == JoinKeys(path)

refIndex(c, el) ==
  IF isRadio(el) THEN RegisterName(ControlPath(c)) \o "." \o el.value
  ELSE RegisterName(ControlPath(c))

(* ref(control): fieldRefs.current[refIndex] = { path, ref } *)
AttachRef(refs, c, el) == Put(refs, refIndex(c, el), [path |-> ControlPath(c), ref |-> c])

(* ref(null): delete fieldRefs.current[name] *)
DetachRef(refs, c) == [k \in (DOMAIN refs) \ {RegisterName(ControlPath(c))} |-> refs[k]]

(* Mutant: a radio is checked when it matches and never unchecked. *)
PushValueNoUncheck(el, value) ==
  IF isRadio(el) THEN [el EXCEPT !.checked = (el.checked \/ Str(el.value) = value)]
  ELSE IF isCheckbox(el) THEN [el EXCEPT !.checked = Truthy(value)]
  ELSE [el EXCEPT !.value = StringOf(value)]

(* The body of the forEach of the effect (lines 61-72) for one element. *)
PushValue(el, value) ==
  IF isRadio(el) THEN [el EXCEPT !.checked = (Str(el.value) = value)]
  ELSE IF isCheckbox(el) THEN [el EXCEPT !.checked = Truthy(value)]
  ELSE [el EXCEPT !.value = StringOf(value)]

(* Lines 60-73: every entry of the table gets the tree's value at its path. *)
(* An entry whose element has left the document writes to that detached    *)
(* element, which no control of the document shows.                        *)
Reconcile(refs, d, tree) ==
  [c \in Controls |->
    IF d[c].mounted /\ \E k \in DOMAIN refs : refs[k].ref = c
    THEN LET k == CHOOSE k \in DOMAIN refs : refs[k].ref = c
         IN PushValue(d[c], getDeepProp(tree, refs[k].path))
    ELSE d[c]]

(* Line 57: if (validateOnChange) validate(), which awaits safeParseAsync. *)
Run(tree, submit) == [value |-> tree, submit |-> submit]
(* Mutant: the effect validates whether or not the flag is set. *)
EffectValidateAlways(touched, tree, q) == Append(q, Run(tree, FALSE))
EffectValidate(touched, tree, q) == IF touched THEN Append(q, Run(tree, FALSE)) ELSE q

(* Mutant: compares with the configured initialValues, not with the baseline. *)
DirtyAgainstConfig(value, baseline) == ~deepEqual(value, initialValues)
(* Mutant: compares the objects' identity; onChange always makes a new object. *)
DirtyByIdentity(value, baseline) == TRUE
(* Line 37. *)
DirtyMemo(value, baseline) == ~deepEqual(value, baseline)

Remove(q, i) == [j \in 1..(Len(q) - 1) |-> IF j < i THEN q[j] ELSE q[j + 1]]

----------------------------------------------------------------------------
Init ==
  /\ formValue = initialValues
  /\ formValueRef = "clone"
  /\ formErrors = NoErrors
  /\ validateOnChange = FALSE
  /\ internalInitialValues = initialValues
  /\ isDirty = DirtyMemo(initialValues, initialValues)
  /\ fieldRefs = [k \in {refIndex(c, FreshElement(c)) : c \in Controls} |->
                   LET c == CHOOSE c \in Controls : refIndex(c, FreshElement(c)) = k
                   IN [path |-> ControlPath(c), ref |-> c]]
  /\ dom = Reconcile(fieldRefs, [c \in Controls |-> FreshElement(c)], initialValues)
  /\ inflight = <<>>
  /\ events = 0
  /\ resetArg = "none"
  /\ submitted = FALSE
  /\ last = [op |-> "init"]

(* Mutant: the empty string is stored whatever the leaf kind. *)
NewValueKeepsEmpty(unwrapped, type, value, checked) ==
  IF type = "checkbox" THEN Bool(checked) ELSE Str(value)

(* Mutant: the string of a number field is converted when it is stored. *)
NewValueCoerced(unwrapped, type, value, checked) ==
  LET coerced == IF unwrapped.kind # "ZodString" /\ value = "" THEN Undefined
                 ELSE IF unwrapped.kind = "ZodNumber" THEN Num(StringToNum(value))
                 ELSE Str(value)
  IN IF type = "checkbox" THEN Bool(checked) ELSE coerced

(* Lines 92-98: the value onChange stores. *)
NewValue(unwrapped, type, value, checked) ==
  LET coerced == IF unwrapped.kind # "ZodString" /\ value = "" THEN Undefined ELSE Str(value)
  IN IF type = "checkbox" THEN Bool(checked) ELSE coerced

(* What the browser has done to the controls when the change event fires:  *)
(* a text control shows what was typed, a checkbox or radio has its new     *)
(* checked-state, and the other radios of the group are unchecked.  The     *)
(* value attribute of a checkbox or radio is the page's and stays.          *)
UserInput(d, c, value, checked) ==
  [x \in Controls |->
    IF x = c
    THEN IF isRadio(d[x]) \/ isCheckbox(d[x])
         THEN [d[x] EXCEPT !.checked = checked]
         ELSE [d[x] EXCEPT !.value = value]
    ELSE IF isRadio(d[c]) /\ isRadio(d[x]) /\ ControlPath(x) = ControlPath(c)
         THEN [d[x] EXCEPT !.checked = FALSE]
         ELSE d[x]]

(* Mutant: onChange also drops the stored errors. *)
OnChangeClearsErrors(c, value, checked) ==
  /\ events < MaxEvents
  /\ dom[c].mounted
  /\ LET newValue == NewValue(unwrapZodType(ControlSchema(c)), dom[c].type, value, checked)
         tree == setDeepProp(formValue, ControlPath(c), newValue)
     IN /\ formValue' = tree
        /\ formValueRef' = "fresh"
        /\ isDirty' = DirtyMemo(tree, internalInitialValues)
        /\ inflight' = EffectValidate(validateOnChange, tree, inflight)
        /\ dom' = Reconcile(fieldRefs, UserInput(dom, c, value, checked), tree)
        /\ last' = [op |-> "change", ctl |-> c, value |-> value, checked |-> checked,
                    stored |-> newValue, effect |-> TRUE, validated |-> validateOnChange]
  /\ events' = events + 1
  /\ formErrors' = NoErrors
  /\ UNCHANGED <<fieldRefs, validateOnChange, internalInitialValues, resetArg, submitted>>

(* register(path, schema).onChange, lines 91-100, and the effect it causes. *)
OnChange(c, value, checked) ==
  /\ events < MaxEvents
  /\ dom[c].mounted
  /\ LET newValue == NewValue(unwrapZodType(ControlSchema(c)), dom[c].type, value, checked)
         tree == setDeepProp(formValue, ControlPath(c), newValue)
     IN /\ formValue' = tree
        /\ formValueRef' = "fresh"
        /\ isDirty' = DirtyMemo(tree, internalInitialValues)
        /\ inflight' = EffectValidate(validateOnChange, tree, inflight)
        /\ dom' = Reconcile(fieldRefs, UserInput(dom, c, value, checked), tree)
        /\ last' = [op |-> "change", ctl |-> c, value |-> value, checked |-> checked,
                    stored |-> newValue, effect |-> TRUE, validated |-> validateOnChange]
  /\ events' = events + 1
  /\ UNCHANGED <<formErrors, fieldRefs, validateOnChange, internalInitialValues, resetArg,
                 submitted>>

(* Mutant: reset also returns the form to the clean state and drops the errors. *)
ResetClearsAll(arg) ==
  /\ events < MaxEvents
  /\ LET values == ValueOf(arg)
         changed == formValueRef # arg \/ validateOnChange
     IN /\ internalInitialValues' = values
        /\ formValue' = values
        /\ formValueRef' = arg
        /\ isDirty' = DirtyMemo(values, values)
        /\ inflight' = inflight
        /\ dom' = IF changed THEN Reconcile(fieldRefs, dom, values) ELSE dom
        /\ last' = [op |-> "reset", arg |-> arg, effect |-> changed, validated |-> FALSE]
  /\ events' = events + 1
  /\ resetArg' = arg
  /\ validateOnChange' = FALSE
  /\ formErrors' = NoErrors
  /\ UNCHANGED <<fieldRefs, submitted>>

(* reset, lines 39-42.  Setting a state to the object it already is does   *)
(* not render, and no effect runs.                                         *)
Reset(arg) ==
  /\ events < MaxEvents
  /\ LET values == ValueOf(arg)
         changed == formValueRef # arg
     IN /\ internalInitialValues' = values
        /\ formValue' = values
        /\ formValueRef' = arg
        /\ isDirty' = DirtyMemo(values, values)
        /\ inflight' = IF changed THEN EffectValidate(validateOnChange, values, inflight) ELSE inflight
        /\ dom' = IF changed THEN Reconcile(fieldRefs, dom, values) ELSE dom
        /\ last' = [op |-> "reset", arg |-> arg, effect |-> changed,
                    validated |-> changed /\ validateOnChange]
  /\ events' = events + 1
  /\ resetArg' = arg
  /\ UNCHANGED <<formErrors, fieldRefs, validateOnChange, submitted>>

(* The function handleSubmit(handler) returns, up to its await (lines 77-80). *)
Submit ==
  /\ events < MaxEvents
  /\ inflight' = Append(inflight, Run(formValue, TRUE))
  /\ events' = events + 1
  /\ last' = [op |-> "submit"]
  /\ submitted' = TRUE
  /\ UNCHANGED <<formValue, formValueRef, formErrors, fieldRefs, validateOnChange,
                 internalInitialValues, isDirty, dom, resetArg>>

(* Mutant: the error state is set from the result on success too, not cleared. *)
ErrorsNotCleared(parsed) == Errors(parsed.error)
(* validate after its await (lines 47-52): the error state and the value it returns. *)
ErrorsAfter(parsed) == IF parsed.success THEN NoErrors ELSE Errors(parsed.error)
Returned(parsed) == IF parsed.success THEN parsed.data ELSE Undefined

(* Mutant: the handler is called without the test. *)
HandlerAlwaysCalled(values) == TRUE
(* Line 81: if (values) handler(values). *)
HandlerCalled(values) == Truthy(values)

(* Mutant: the parse reads the tree value of the moment it completes, not  *)
(* the one validate() was called with.                                     *)
ValidateDoneParsesCurrent(i, throws) ==
  /\ i \in 1..Len(inflight)
  /\ LET run == inflight[i]
         parsed == safeParse(formValue)
         values == Returned(parsed)
         called == run.submit /\ HandlerCalled(values)
         touch == run.submit /\ ~(called /\ throws)
         effect == touch /\ ~validateOnChange
     IN /\ throws => called
        /\ formErrors' = ErrorsAfter(parsed)
        /\ validateOnChange' = (validateOnChange \/ touch)
        /\ inflight' = IF effect THEN EffectValidate(TRUE, formValue, Remove(inflight, i))
                       ELSE Remove(inflight, i)
        /\ dom' = IF effect THEN Reconcile(fieldRefs, dom, formValue) ELSE dom
        /\ last' = [op |-> "done", run |-> run, previous |-> formErrors, success |-> parsed.success,
                    returned |-> values, called |-> called,
                    handlerArg |-> IF called THEN values ELSE Undefined,
                    threw |-> throws, effect |-> effect, validated |-> effect]
  /\ UNCHANGED <<formValue, formValueRef, fieldRefs, internalInitialValues, isDirty,
                 events, resetArg, submitted>>

(* safeParseAsync of the i-th call in flight resolves: validate continues  *)
(* (lines 47-52), and for a submit handleSubmit continues (lines 81-82).   *)
(* The handler returns or throws; setValidateOnChange(true) is reached     *)
(* only when it did not throw.  Setting the flag runs the effect.          *)
ValidateDone(i, throws) ==
  /\ i \in 1..Len(inflight)
  /\ LET run == inflight[i]
         parsed == safeParse(run.value)
         values == Returned(parsed)
         called == run.submit /\ HandlerCalled(values)
         touch == run.submit /\ ~(called /\ throws)
         effect == touch /\ ~validateOnChange
     IN /\ throws => called
        /\ formErrors' = ErrorsAfter(parsed)
        /\ validateOnChange' = (validateOnChange \/ touch)
        /\ inflight' = IF effect THEN EffectValidate(TRUE, formValue, Remove(inflight, i))
                       ELSE Remove(inflight, i)
        /\ dom' = IF effect THEN Reconcile(fieldRefs, dom, formValue) ELSE dom
        /\ last' = [op |-> "done", run |-> run, previous |-> formErrors, success |-> parsed.success,
                    returned |-> values, called |-> called,
                    handlerArg |-> IF called THEN values ELSE Undefined,
                    threw |-> throws, effect |-> effect, validated |-> effect]
  /\ UNCHANGED <<formValue, formValueRef, fieldRefs, internalInitialValues, isDirty,
                 events, resetArg, submitted>>

(* safeParseAsync of the i-th call rejects (an async refinement threw):    *)
(* validate and, for a submit, handleSubmit end with that error.           *)
ParseRejects(i) ==
  /\ i \in 1..Len(inflight)
  /\ inflight' = Remove(inflight, i)
  /\ last' = [op |-> "reject", run |-> inflight[i]]
  /\ UNCHANGED <<formValue, formValueRef, formErrors, fieldRefs, validateOnChange,
                 internalInitialValues, isDirty, dom, events, resetArg, submitted>>

(* ref(control), lines 103-105: a control is created and attached. *)
Mount(c) ==
  /\ events < MaxEvents
  /\ ~dom[c].mounted
  /\ dom' = [dom EXCEPT ![c] = FreshElement(c)]
  /\ fieldRefs' = AttachRef(fieldRefs, c, FreshElement(c))
  /\ events' = events + 1
  /\ last' = [op |-> "mount", ctl |-> c]
  /\ UNCHANGED <<formValue, formValueRef, formErrors, validateOnChange,
                 internalInitialValues, isDirty, inflight, resetArg, submitted>>

(* ref(null), lines 106-107: a control leaves the document. *)
Unmount(c) ==
  /\ events < MaxEvents
  /\ dom[c].mounted
  /\ dom' = [dom EXCEPT ![c] = NoElement(c)]
  /\ fieldRefs' = DetachRef(fieldRefs, c)
  /\ events' = events + 1
  /\ last' = [op |-> "unmount", ctl |-> c]
  /\ UNCHANGED <<formValue, formValueRef, formErrors, validateOnChange,
                 internalInitialValues, isDirty, inflight, resetArg, submitted>>

Next ==
  \/ \E c \in Controls : \E value \in EventValues(c) : \E checked \in EventChecked(c) :
       OnChange(c, value, checked)
  \/ \E arg \in ResetArgs : Reset(arg)
  \/ Submit
  \/ \E i \in 1..Len(inflight) : \E throws \in BOOLEAN : ValidateDone(i, throws)
  \/ \E i \in 1..Len(inflight) : ParseRejects(i)
  \/ \E c \in Controls : Mount(c)
  \/ \E c \in Controls : Unmount(c)

Spec == Init /\ [][Next]_vars

(* The same form with a schema none of whose refinements throws: every     *)
(* safeParseAsync resolves.                                                *)
NextResolving ==
  \/ \E c \in Controls : \E value \in EventValues(c) : \E checked \in EventChecked(c) :
       OnChange(c, value, checked)
  \/ \E arg \in ResetArgs : Reset(arg)
  \/ Submit
  \/ \E i \in 1..Len(inflight) : \E throws \in BOOLEAN : ValidateDone(i, throws)
  \/ \E c \in Controls : Mount(c)
  \/ \E c \in Controls : Unmount(c)

SpecResolving == Init /\ [][NextResolving]_vars

----------------------------------------------------------------------------
(* Properties. *)

Mounted == {c \in Controls : dom[c].mounted}
Registered == {fieldRefs[k].ref : k \in DOMAIN fieldRefs}
Baseline == IF resetArg = "none" THEN initialValues ELSE ValueOf(resetArg)
IsValueChange(op, refBefore, refAfter) ==
  op = "change" \/ (op = "reset" /\ refAfter # refBefore)

(* C1: the function handleSubmit(handler) returns calls handler only when  *)
(* the validate() run it started succeeded, and then with the value that   *)
(* run parsed; a submit whose validation failed never calls the handler.   *)
C1_HandlerOnlyOnSuccess ==
  last.op = "done" =>
    /\ last.called =>
         /\ last.run.submit
         /\ Issues(last.run.value) = {}
         /\ last.handlerArg = ParsedData(last.run.value)
    /\ (last.run.submit /\ Issues(last.run.value) # {}) => ~last.called

C1_Witness == last.op = "done" /\ last.called /\ last.handlerArg.t = "obj"

C3_DirtyIffDiffersFromBaseline ==
  /\ isDirty <=> (formValue # Baseline)
  /\ last.op \in {"init", "reset"} => ~isDirty

C3_Witness == isDirty /\ resetArg = "resetValues" /\ formValue # initialValues

(* C4 as stated: an onChange that changes a leaf value leaves isDirty      *)
(* true, and isDirty stays true after every later onChange.                *)
C4_AsStated ==
  [][(last'.op = "change" /\ (formValue' # formValue \/ isDirty)) => isDirty']_vars

(* C4 amended: after an onChange isDirty is true iff the tree differs from *)
(* the baseline: an onChange that changes a leaf of a clean form makes it  *)
(* dirty, and a later onChange that restores the baseline value makes it   *)
(* clean again.                                                            *)
C4_DirtyAfterChange ==
  [][last'.op = "change" =>
       /\ isDirty' <=> (formValue' # internalInitialValues')
       /\ (~isDirty /\ formValue' # formValue) => isDirty'
       /\ (isDirty /\ formValue' = Baseline) => ~isDirty']_vars

C4_Witness == last.op = "change" /\ isDirty /\ events = 1

(* C5: a validate() run that completes replaces the error state as a       *)
(* whole: cleared on success, with the parsed value returned; exactly the  *)
(* run's own issues on failure, with no value returned.                    *)
C5_ErrorsReplaced ==
  last.op = "done" =>
    IF Issues(last.run.value) = {}
    THEN formErrors = NoErrors /\ last.returned = ParsedData(last.run.value)
    ELSE /\ formErrors = Errors(Issues(last.run.value))
         /\ last.returned = Undefined

C5_Witness ==
  /\ last.op = "done"
  /\ last.previous.set
  /\ formErrors.set
  /\ ~(last.previous.issues \subseteq formErrors.issues)

(* C6: reset leaves the touched flag, the error state and the registration *)
(* table as they were, in the clean and in the touched state.              *)
C6_ResetFrame ==
  [][last'.op = "reset" =>
       /\ validateOnChange' = validateOnChange
       /\ formErrors' = formErrors
       /\ fieldRefs' = fieldRefs]_vars

C6_Witness == last.op = "reset" /\ validateOnChange /\ formErrors.set

(* C7: the registration table holds exactly one entry for each mounted     *)
(* control, under its dotted name (name.value for a radio option), and no  *)
(* entry for a control that has unmounted.                                 *)
C7_OneEntryPerMountedControl ==
  /\ Registered = Mounted
  /\ DOMAIN fieldRefs = {refIndex(c, dom[c]) : c \in Mounted}

(* C8: once reconciliation has run for the tree value, every registered    *)
(* control shows the value at its path: a radio is checked iff its value   *)
(* is the tree's, a checkbox iff the tree's value is truthy, any other     *)
(* control displays the value's string form, empty when it is absent.      *)
Shows(el, v) ==
  CASE el.type = "radio" -> el.checked <=> (v.t = "str" /\ v.s = el.value)
    [] el.type = "checkbox" -> el.checked <=> (v.t = "bool" /\ v.b)
    [] OTHER -> el.value = (IF v.t = "str" THEN v.s ELSE "")

C8_ControlsShowTree ==
  (last.op = "init" \/ (last.op \in {"change", "reset", "done"} /\ last.effect)) =>
    \A k \in DOMAIN fieldRefs :
      dom[fieldRefs[k].ref].mounted =>
        Shows(dom[fieldRefs[k].ref], getDeepProp(formValue, fieldRefs[k].path))

C8_Witness ==
  /\ last.op = "reset"
  /\ {"radioA", "radioB", "ageInput"} \subseteq (Registered \cap Mounted)
  /\ dom["radioA"].checked
  /\ ~dom["radioB"].checked
  /\ dom["ageInput"].value = "30"

(* C9: an onChange carrying the empty string stores undefined when the     *)
(* field's unwrapped kind is not string and the empty string when it is;   *)
(* a checkbox stores its checked-state whatever its value is.              *)
StringKind(c) == c = "nameInput"

C9_EmptyInputCoercion ==
  last.op = "change" =>
    LET stored == getDeepProp(formValue, ControlPath(last.ctl))
    IN /\ ControlType(last.ctl) = "checkbox" => stored = Bool(last.checked)
       /\ (ControlType(last.ctl) # "checkbox" /\ last.value = "") =>
            stored = IF StringKind(last.ctl) THEN Str("") ELSE Undefined

C9_Witness ==
  /\ last.op = "change"
  /\ last.ctl = "ageInput"
  /\ last.value = ""
  /\ Has(formValue, "age")
  /\ formValue.kids["age"] = Undefined

(* C10 as stated: an onChange carrying "30" on the number field leaves the *)
(* number 30 in the tree.                                                  *)
C10_AsStated ==
  (last.op = "change" /\ last.ctl = "ageInput" /\ last.value = "30") =>
    getDeepProp(formValue, <<"age">>) = Num(30)

(* C10 amended: the tree holds the string "30" (nothing is coerced when    *)
(* the value is written; the number 30 is in the value the schema parses): *)
(* the tree {name: "Al"} becomes {name: "Al", age: "30"}.                  *)
C10_StoresString ==
  [][(last'.op = "change" /\ last'.ctl = "ageInput" /\ last'.value = "30") =>
       /\ getDeepProp(formValue', <<"age">>) = Str("30")
       /\ formValue = initialValues =>
            /\ formValue' = Obj(Put(Put(NoKeys, "name", Str("Al")), "age", Str("30")))
            /\ ParsedData(formValue').kids["age"] = Num(30)]_vars

C10_Witness ==
  /\ last.op = "change"
  /\ last.ctl = "ageInput"
  /\ last.value = "30"
  /\ formValue = Obj(Put(Put(NoKeys, "name", Str("Al")), "age", Str("30")))

(* C11: overlapping validate() calls: a call started from a stale tree     *)
(* value does not overwrite the error state of a call started from a newer *)
(* one, so in the touched state, once every validation in flight has       *)
(* completed, the error state is the validation result of the current tree *)
(* value.  (Stated for a schema whose parses all resolve: every call, the  *)
(* one for the current tree value included, has then written its result.)  *)
C11_ErrorsOfCurrentTree ==
  (validateOnChange /\ inflight = <<>>) =>
    formErrors = (IF Issues(formValue) = {} THEN NoErrors ELSE Errors(Issues(formValue)))

(* C12: every run of a function handleSubmit returned sets the touched     *)
(* flag, whether validation succeeded or failed and also when the handler  *)
(* or the parse ended with an error: once the submit's validate() call has *)
(* ended, the flag is set.                                                 *)
C12_SubmitAlwaysTouches ==
  (last.op \in {"done", "reject"} /\ last.run.submit) => validateOnChange

(* C13: the touched flag is false in every state before the first submit   *)
(* event, and once true it stays true whatever operation follows.          *)
C13_TouchedMonotone ==
  [][/\ ~submitted => ~validateOnChange
     /\ ~submitted' => ~validateOnChange'
     /\ validateOnChange => validateOnChange']_vars

C13_Witness == validateOnChange /\ submitted /\ last.op = "unmount"

(* C14: an onChange at path P with coerced value V changes the tree only   *)
(* at P: afterwards the tree holds V at P, every path that is neither a    *)
(* prefix nor an extension of P holds what it held, and the baseline, the  *)
(* error state, the touched flag and the registration table are unchanged. *)
TreePaths == {<<"name">>, <<"age">>, <<"prefs">>, <<"prefs", "agree">>, <<"choice">>}
IsPrefix(p, q) == Len(p) <= Len(q) /\ SubSeq(q, 1, Len(p)) = p
Unrelated(p, q) == ~IsPrefix(p, q) /\ ~IsPrefix(q, p)
Coerced(c, value, checked) ==
  IF ControlType(c) = "checkbox" THEN Bool(checked)
  ELSE IF value = "" /\ ~(c = "nameInput") THEN Undefined
  ELSE Str(value)

C14_ChangeFrame ==
  [][last'.op = "change" =>
       /\ getDeepProp(formValue', ControlPath(last'.ctl))
            = Coerced(last'.ctl, last'.value, last'.checked)
       /\ \A q \in TreePaths :
            Unrelated(ControlPath(last'.ctl), q) =>
              /\ getDeepProp(formValue', q) = getDeepProp(formValue, q)
              /\ (Len(q) = 1 => (Has(formValue', q[1]) <=> Has(formValue, q[1])))
       /\ internalInitialValues' = internalInitialValues
       /\ formErrors' = formErrors
       /\ validateOnChange' = validateOnChange
       /\ fieldRefs' = fieldRefs]_vars

C14_Witness ==
  /\ last.op = "change"
  /\ last.ctl = "agreeBox"
  /\ getDeepProp(formValue, <<"prefs", "agree">>) = Bool(TRUE)
  /\ getDeepProp(formValue, <<"age">>) = Str("30")
  /\ formErrors.set

(* C15: the value handed to the submit handler is the parse of the tree    *)
(* value as it was when the submit event fired, also when onChange or      *)
(* reset changed the tree while that validation was in flight.             *)
C15_HandlerGetsSubmitTimeValue ==
  [][/\ last'.op = "submit" =>
          inflight' = Append(inflight, [value |-> formValue, submit |-> TRUE])
     /\ last'.op \in {"change", "reset", "mount", "unmount"} =>
          SubSeq(inflight', 1, Len(inflight)) = inflight
     /\ (last'.op = "done" /\ last'.called) =>
          /\ \E i \in 1..Len(inflight) : inflight[i] = last'.run
          /\ last'.run.submit
          /\ last'.handlerArg = ParsedData(last'.run.value)]_vars

C15_Witness ==
  /\ last.op = "done"
  /\ last.called
  /\ last.run.value # formValue
  /\ last.handlerArg # ParsedData(formValue)

(* C16: every control in the registration table displays the tree's        *)
(* current value at its path, also a control that mounted after the last   *)
(* reconciliation ran.  (Every step runs the effect it causes, so no       *)
(* reconciliation is pending in any state.)                                *)
C16_RegisteredControlsShowTree ==
  \A k \in DOMAIN fieldRefs :
    dom[fieldRefs[k].ref].mounted =>
      Shows(dom[fieldRefs[k].ref], getDeepProp(formValue, fieldRefs[k].path))

====
